---- MODULE Spec2Model ----
(***************************************************************************)
(* Model of chromeExtensionRealtor/batch_processor.py: the BatchProcessor  *)
(* orchestrator.  One main thread runs run() -> process_all_urls ->        *)
(* process_batch; the ThreadPoolExecutor's worker threads each run         *)
(* process_single_url for one URL; the signal handler sets should_stop.    *)
(*                                                                         *)
(* Line numbers in comments refer to                                       *)
(* src/chromeExtensionRealtor/batch_processor.py.                          *)
(***************************************************************************)
EXTENDS Integers, Sequences, FiniteSets, TLC

\* ---------------------------------------------------------------- bounds
\* Largest number of URLs in the CSV, and the largest values of batch_size,
\* max_workers, max_retries and progress_save_interval a run is configured
\* with (of progress_save_interval the run takes 1, a save after every
\* batch, or the largest value).
MaxUrls == 2
MaxBatch == 2
MaxWorkers == 2
MaxRetries == 2
MaxInterval == 2
\* Largest number of calls of stop_chrome made by a caller that drives the
\* browser supervisor directly.
MaxStopCalls == 2
\* Largest number of lines of a CSV file whose content is read.
MaxLines == 2
\* Number of seconds of the clock that pass while the secondary trigger is
\* in use.
MaxClock == 2

Tasks == 1..MaxUrls

VARIABLES
    config,         \* Config fields the scheduler reads (lines 34-48)
    stats,          \* ProcessingStats (lines 52-59)
    chrome_process, \* self.chrome_process: "None" or "proc" (line 72)
    browser,        \* the browser's OS process: "none" before a launch, then
                    \* "running", "exited" (on terminate) or "killed"
    stop_log,       \* what the latest stop_chrome did to a held process
    should_stop,    \* self.should_stop (line 73)
    ledger,         \* contents of progress_file: <<>> or <<snapshot of stats>>
    mpc,            \* position of the main thread in run()
    exc,            \* exception propagating out of run()'s try block
    i,              \* process_all_urls: loop variable i (line 513)
    j,              \* process_batch: number of tasks created (len(tasks))
    pc,             \* per task: position inside process_single_url
    attempt,        \* per task: loop variable attempt (line 415)
    waits,          \* per task: the lengths of the sleeps of line 447 so far
    loaded,         \* per task: value read by an in-place += not yet stored
    outcome,        \* per task: kind of the dict returned
    initDup,        \* per task: result of the call of line 409
    triggered,      \* per task: some extraction trigger has been called
    verified,       \* per task: the latest trigger was followed by a
                    \* duplicate check that returned a positive match
    atStop,         \* tasks executing process_single_url when the signal came
    batches,        \* the slices handed to process_batch so far (line 518)
    stop_calls,     \* number of calls of stop_chrome so far
    chrome_ok,      \* what start_chrome returned: "none" before it returns
    primary,        \* per task: what the primary trigger returned in the
                    \* attempt under way, until line 434 has been passed
    reply,          \* per task: how the call of line 409 ended, while that
                    \* call is the task's latest call to backend or browser
    checks,         \* the checks _check_dependencies has made, with results
    csv_in,         \* SpecCsv: the CSV file given to load_urls_from_csv
    csv_out,        \* SpecCsv: what load_urls_from_csv returned or raised
    tabs,           \* SpecTabs: the browser's open tabs (answer of /json)
    seen,           \* SpecTabs, per task: the tab list it fetched (line 341)
    tab_of,         \* SpecTabs, per task: the tab it works on (`tab`)
    clock,          \* SpecOpener: int(time.time()), the second on the clock
    files,          \* SpecOpener: temp/single_url_<second>.csv by its second:
                    \* NoFile, or the task whose URL the file holds
    temp_csv,       \* SpecOpener, per task: the second in its `temp_csv`
    helper          \* SpecOpener, per task: the tab_opener.sh it has spawned

vars == <<config, stats, chrome_process, browser, stop_log, should_stop, ledger, mpc, exc, i, j,
          pc, attempt, waits, loaded, outcome, initDup, triggered, verified, atStop,
          batches, stop_calls, chrome_ok, reply, checks, csv_in, csv_out,
          primary,
          tabs, seen, tab_of, clock, files, temp_csv, helper>>

\* Spec and SpecSupervisor treat the CSV file and the browser's tabs as
\* environment: they keep only the number of URLs loaded and whether a
\* trigger reported success.  SpecCsv and SpecTabs track these in full, and
\* SpecOpener tracks the single-URL files of the secondary trigger.
openerVars == <<clock, files, temp_csv, helper>>

sideVars == <<csv_in, csv_out, tabs, seen, tab_of, openerVars>>

mainVars == <<mpc, exc, i, j, chrome_process, browser, stop_log, ledger, batches, stop_calls,
             chrome_ok, checks, sideVars>>
taskVars == <<pc, attempt, waits, loaded, outcome, initDup, triggered, verified,
             reply, primary>>

\* ------------------------------------------------------------- helpers
Min(a, b) == IF a < b THEN a ELSE b

\* class ProcessingStats, as constructed (total .. skipped = 0, errors = []).
ProcessingStats ==
    [total |-> 0, processed |-> 0, successful |-> 0, failed |-> 0,
     skipped |-> 0, errors |-> <<>>]

\* urls[i:i + batch_size] has this many elements (line 518).
BatchLen == Min(config.batch_size, stats.total - i)

\* The tasks created so far by process_batch for the current batch.
BatchTasks == (i + 1)..(i + j)

\* A task is executing process_single_url (a worker thread is occupied).
InFlight(t) == pc[t] \notin {"idle", "queued", "done"}

Running == Cardinality({t \in Tasks : InFlight(t)})

\* Mutant of WorkerFree: a pool that starts every queued item at once.
WorkerFreeUnbounded == TRUE

\* Mutant of WorkerFree: a pool none of whose threads ever takes an item.
WorkerFreeNever == FALSE

\* ThreadPoolExecutor(max_workers=...): a queued work item starts only on a
\* free worker thread (line 474).
WorkerFree == Running < config.max_workers

\* The executor's work queue is FIFO: the next item is the oldest queued.
NextQueued(t) == pc[t] = "queued" /\ \A u \in Tasks : pc[u] = "queued" => t <= u

\* Mutant of RangeHasNext: a loop that runs one iteration too many.
RangeHasNextOffByOne(a) == a <= config.max_retries

\* range(1, max_retries + 1) has an element after `a` (a = 0 before the loop).
RangeHasNext(a) == a < config.max_retries

\* Config.retry_delay in seconds (line 40); main() passes no other value.
retry_delay == 5

\* Mutant of WaitDue: a wait after every failed attempt, the last included.
WaitDueAlways(a) == TRUE

\* Line 445: `if attempt < self.config.max_retries`.
WaitDue(a) == a < config.max_retries

\* Lines 445-447: the sleeps made so far, after the end of attempt a.
Slept(w, a) == IF WaitDue(a) THEN Append(w, retry_delay) ELSE w

\* Mutant of save_progress: a save that leaves no snapshot in the file.
save_progress_writes_nothing(s) == <<>>

\* _save_progress (lines 544-556): overwrite the progress file with the stats.
save_progress(s) == <<s>>

\* ---------------------------------------------------------------- Init
\* Browser tabs are named by pairs: FirstTab is the tab Chrome opens at its
\* start, NewTab(t, a) the one created for task t in its attempt a; NoTab
\* stands for no tab.
NoTab == <<>>
FirstTab == <<0, 0>>
NewTab(t, a) == <<t, a>>

\* What load_urls_from_csv has returned: nothing yet.
NotRead == [done |-> FALSE, raised |-> FALSE, urls |-> <<>>]

\* Line 374: the name temp/single_url_<int(time.time())>.csv is fixed by the
\* second alone, so the files of that name pattern are told apart by it.
Seconds == 1..MaxClock

\* A name of the temp directory with no file behind it, and the file that
\* lines 375-376 leave: one line, the URL of task t.
NoFile == [exists |-> FALSE, lines |-> <<>>]
SingleUrlFile(t) == [exists |-> TRUE, lines |-> <<t>>]

\* No tab_opener.sh spawned (or the one spawned is no longer awaited).
NoHelper == [st |-> "none", got |-> NoFile]

\* No task is inside process_url_via_tab_opener and temp/ holds no
\* single-URL file (setup creates the directory, line 134).
OpenerIdle ==
    /\ clock = 1
    /\ files = [c \in Seconds |-> NoFile]
    /\ temp_csv = [t \in Tasks |-> 0]
    /\ helper = [t \in Tasks |-> NoHelper]

Init ==
    /\ config \in [batch_size : 0..MaxBatch, max_workers : 0..MaxWorkers,
                   max_retries : 0..MaxRetries,
                   progress_save_interval : {1, MaxInterval},
                   chrome_binary : {"google-chrome", "chromium"}]
    /\ stats = ProcessingStats
    /\ chrome_process = "None"
    /\ browser = "none"
    /\ stop_log = <<>>
    /\ should_stop = FALSE
    /\ ledger = <<>>
    /\ mpc = "setup"
    /\ exc = "none"
    /\ i = 0
    /\ j = 0
    /\ pc = [t \in Tasks |-> "idle"]
    /\ attempt = [t \in Tasks |-> 0]
    /\ waits = [t \in Tasks |-> <<>>]
    /\ loaded = [t \in Tasks |-> 0]
    /\ outcome = [t \in Tasks |-> "none"]
    /\ initDup = [t \in Tasks |-> "none"]
    /\ triggered = [t \in Tasks |-> FALSE]
    /\ verified = [t \in Tasks |-> FALSE]
    /\ atStop = {}
    /\ batches = <<>>
    /\ stop_calls = 0
    /\ chrome_ok = "none"
    /\ reply = [t \in Tasks |-> "none"]
    /\ primary = [t \in Tasks |-> "none"]
    /\ checks = <<>>
    /\ csv_in = <<>>
    /\ csv_out = NotRead
    /\ tabs = <<>>
    /\ seen = [t \in Tasks |-> <<>>]
    /\ tab_of = [t \in Tasks |-> NoTab]
    /\ OpenerIdle

\* ------------------------------------------------------ signal handler
\* _signal_handler (lines 108-111).  Installed by __init__ (lines 77-78), it
\* can run at any point of the process's life.
signal_handler ==
    /\ ~should_stop
    /\ mpc \notin {"exit", "crashed"}
    /\ should_stop' = TRUE
    /\ atStop' = {t \in Tasks : InFlight(t)}
    /\ UNCHANGED <<config, stats, mainVars, taskVars>>

\* ---------------------------------------------------------- main thread
\* run(), lines 634-639: an exception raised inside the try block is logged,
\* re-raised, and control reaches the finally clause.
RaisedSkipsFinally == "exit"

Raised == "finally"

\* Mutant of RunAfterStart: the value returned by start_chrome is not tested.
RunAfterStartUnchecked(ret) == "load"

\* run(), lines 622-626: `if not await self.start_chrome(): raise ...`.
RunAfterStart(ret) == IF ret = "True" THEN "load" ELSE Raised

\* start_chrome (lines 203-238) as a function of what happens to it: Popen
\* raises (chrome_process keeps its value), or the process is stored in
\* chrome_process and the probe of _verify_chrome_debugging (lines 240-247)
\* fails or succeeds.  Only a successful probe returns True (lines 230-238).
start_chrome_body(r) ==
    /\ chrome_process' = IF r = "popen_raises" THEN chrome_process ELSE "proc"
    /\ browser' = IF r = "popen_raises" THEN browser ELSE "running"
    /\ stop_log' = IF r = "popen_raises" THEN stop_log ELSE <<>>
    /\ chrome_ok' = IF r = "ok" THEN "True" ELSE "False"

\* Mutant of KillDue: the process is killed whether or not it has exited.
KillDueAlways(exited) == TRUE

\* Lines 255-262: kill() is in the handler of asyncio.TimeoutError, which
\* wait_for raises when the polling of lines 266-269 has not seen the
\* process exit within 10 s.
KillDue(exited) == ~exited

\* Lines 253-262 in order: terminate(), then the bounded wait, which ends
\* with the process exited or with the timeout, then kill() when due.
Stopping(exited) ==
    <<"terminate">> \o (IF exited THEN <<"exited">> ELSE <<"timeout">>)
                   \o (IF KillDue(exited) THEN <<"kill">> ELSE <<>>)

\* Mutant of StopGuard: stop_chrome without the test of line 251.
StopGuardMissing == TRUE

\* stop_chrome, line 251: `if self.chrome_process:`.
StopGuard == chrome_process # "None"

\* stop_chrome (lines 249-264): inside the guard the process is terminated,
\* awaited for at most 10 s, killed on timeout, and chrome_process is set to
\* None; terminate() on None would raise AttributeError.  Outside the guard
\* nothing happens.
stop_chrome_body ==
    /\ stop_calls' = stop_calls + 1
    /\ IF StopGuard
       THEN IF chrome_process = "None"
            THEN /\ exc' = "AttributeError"
                 /\ UNCHANGED <<chrome_process, browser, stop_log>>
            ELSE /\ exc' = exc
                 /\ chrome_process' = "None"
                 /\ \E exited \in BOOLEAN :
                      /\ stop_log' = Stopping(exited)
                      /\ browser' = IF KillDue(exited) THEN "killed"
                                                       ELSE "exited"
       ELSE UNCHANGED <<exc, chrome_process, browser, stop_log>>

\* _check_dependencies (lines 139-163) tests, in this order, the backend's
\* /health, the CSV file, the Chrome binary and the extension's manifest.
GateOrder == <<"backend", "csv_file", "chrome_binary", "manifest">>

\* _check_chrome_available, line 173: the names tried after the configured
\* binary, in this order.
Alternatives == <<"google-chrome-stable", "chromium", "chromium-browser">>

\* What the machine offers to the checks: whether the backend answers, the
\* CSV file and the manifest exist, and which Chrome binaries can be run
\* (none, or the browser installed as "chromium", which a run meets as its
\* configured --chrome-binary or as an alternative to the default name).
Envs ==
    [backend : BOOLEAN, csv_file : BOOLEAN, manifest : BOOLEAN,
     installed : {{}, {"chromium"}}]

\* _check_chrome_available, lines 173-180: the first alternative name, from
\* the k-th on, that runs with --version; "none" when no name is left.
RECURSIVE FirstInstalled(_, _)
FirstInstalled(k, installed) ==
    IF k > Len(Alternatives) THEN "none"
    ELSE IF Alternatives[k] \in installed THEN Alternatives[k]
    ELSE FirstInstalled(k + 1, installed)

\* _check_chrome_available (lines 165-181): the binary that was found to
\* run, the configured one first; "none" stands for the result False.
check_chrome_available(binary, installed) ==
    IF binary \in installed THEN binary ELSE FirstInstalled(1, installed)

\* The result of one check of _check_dependencies in environment env.
CheckPasses(name, env) ==
    CASE name = "backend" -> env.backend
      [] name = "csv_file" -> env.csv_file
      [] name = "chrome_binary" ->
            check_chrome_available(config.chrome_binary, env.installed)
                # "none"
      [] name = "manifest" -> env.manifest

\* Mutant of check_dependencies: a gate that collects every failure instead
\* of raising at the first.
RECURSIVE check_dependencies_keeps_going(_, _)
check_dependencies_keeps_going(k, env) ==
    IF k > Len(GateOrder) THEN <<>>
    ELSE <<[name |-> GateOrder[k], ok |-> CheckPasses(GateOrder[k], env)]>>
            \o check_dependencies_keeps_going(k + 1, env)

\* _check_dependencies (lines 139-163) from its k-th check on: the checks
\* it makes with their results.  A failed check raises, so none follows it.
RECURSIVE check_dependencies(_, _)
check_dependencies(k, env) ==
    IF k > Len(GateOrder) THEN <<>>
    ELSE IF CheckPasses(GateOrder[k], env)
         THEN <<[name |-> GateOrder[k], ok |-> TRUE]>>
                 \o check_dependencies(k + 1, env)
         ELSE <<[name |-> GateOrder[k], ok |-> FALSE]>>

\* run(), line 619: setup() = _create_directories, _check_dependencies and
\* _initialize_progress (lines 183-197), which writes the progress file.
\* When the Chrome check finds the browser under an alternative name it
\* stores that name in config.chrome_binary (line 178).
setup ==
    /\ mpc = "setup"
    /\ \E env \in Envs :
        LET made == check_dependencies(1, env)
            found == check_chrome_available(config.chrome_binary,
                                            env.installed)
        IN
        /\ checks' = made
        /\ config' = IF \E k \in DOMAIN made :
                           made[k].name = "chrome_binary" /\ made[k].ok
                      THEN [config EXCEPT !.chrome_binary = found]
                      ELSE config
        /\ IF \A k \in DOMAIN made : made[k].ok
           THEN /\ ledger' = save_progress(stats)
                /\ mpc' = "start_chrome"
                /\ exc' = exc
           ELSE /\ exc' = "DependencyError"
                /\ mpc' = Raised
                /\ ledger' = ledger
    /\ UNCHANGED <<stats, chrome_process, browser, stop_log, should_stop, i, j, batches,
                   stop_calls, chrome_ok, taskVars, atStop, sideVars>>

\* run(), lines 622-623: start_chrome is called and its result tested; on
\* False run() raises RuntimeError.
start_chrome ==
    /\ mpc = "start_chrome"
    /\ \E r \in {"popen_raises", "probe_fails", "ok"} :
        start_chrome_body(r)
    /\ mpc' = RunAfterStart(chrome_ok')
    /\ exc' = IF chrome_ok' = "True" THEN exc ELSE "RuntimeError"
    /\ UNCHANGED <<config, stats, should_stop, ledger, i, j, batches,
                   stop_calls, taskVars, atStop, checks,
                   sideVars>>

\* run(), lines 626-632, and process_all_urls, lines 506-513: the CSV yields
\* n URLs; none raises ValueError, otherwise stats.total = len(urls) and the
\* loop over range(0, len(urls), batch_size) is set up, which raises
\* ValueError for a step of 0.
load_urls_from_csv ==
    /\ mpc = "load"
    /\ \/ /\ exc' = "AttributeError"
          /\ mpc' = Raised
          /\ UNCHANGED <<stats, i>>
       \/ \E n \in 0..MaxUrls :
            IF n = 0
            THEN /\ exc' = "ValueError"
                 /\ mpc' = Raised
                 /\ UNCHANGED <<stats, i>>
            ELSE /\ stats' = [stats EXCEPT !.total = n]
                 /\ i' = 0
                 /\ IF config.batch_size = 0
                    THEN mpc' = Raised /\ exc' = "ValueError"
                    ELSE mpc' = "batch_loop" /\ exc' = exc
    /\ UNCHANGED <<config, chrome_process, browser, stop_log, should_stop, ledger, j, batches,
                   stop_calls, chrome_ok, taskVars, atStop, checks,
                   sideVars>>

\* process_all_urls, lines 513-521: the next batch starts when URLs remain
\* and should_stop is not set; the batch is the slice urls[i:i + batch_size]
\* and process_batch begins with tasks = [] inside the executor's block
\* (lines 474-475).  ThreadPoolExecutor(max_workers=0) raises ValueError.
StartBatch ==
    /\ mpc = "batch_loop"
    /\ i < stats.total
    /\ ~should_stop
    /\ IF config.max_workers = 0
       THEN mpc' = Raised /\ exc' = "ValueError"
       ELSE mpc' = "submit" /\ exc' = exc
    /\ j' = 0
    /\ batches' = Append(batches, [start |-> i, size |-> BatchLen])
    /\ UNCHANGED <<config, stats, chrome_process, browser, stop_log, should_stop, ledger, i,
                   stop_calls, chrome_ok, taskVars, atStop, checks,
                   sideVars>>

\* process_all_urls, lines 513-516 and 537: the loop is exhausted or broken
\* by should_stop, and _save_progress is called for the final snapshot.
FinishAll ==
    /\ mpc = "batch_loop"
    /\ (i >= stats.total \/ should_stop)
    /\ mpc' = "open_final"
    /\ UNCHANGED <<config, stats, chrome_process, browser, stop_log, should_stop, ledger, exc, i,
                   j, batches, stop_calls, chrome_ok, taskVars, atStop, checks,
                   sideVars>>

\* process_batch, lines 477-494: should_stop is not set, so the next URL of
\* the batch is handed to the executor; after the last one the loop ends.
SubmitTask ==
    /\ mpc = "submit"
    /\ ~should_stop
    /\ pc' = [pc EXCEPT ![i + j + 1] = "queued"]
    /\ j' = j + 1
    /\ mpc' = IF j + 1 = BatchLen THEN "gather" ELSE "submit"
    /\ UNCHANGED <<config, stats, chrome_process, browser, stop_log, should_stop, ledger, exc, i,
                   batches, stop_calls, chrome_ok, attempt, waits, loaded, outcome,
                   initDup, triggered, verified, reply, primary, atStop, checks,
                   sideVars>>

\* process_batch, lines 478-479: should_stop breaks the submit loop.
SubmitBreak ==
    /\ mpc = "submit"
    /\ should_stop
    /\ mpc' = "gather"
    /\ UNCHANGED <<config, stats, chrome_process, browser, stop_log, should_stop, ledger, exc, i,
                   j, batches, stop_calls, chrome_ok, taskVars, atStop, checks,
                   sideVars>>

\* process_batch, lines 496-500.  tasks holds asyncio futures (the results of
\* loop.run_in_executor), and concurrent.futures.as_completed acquires
\* future._condition of each: with tasks non-empty it raises AttributeError
\* on the first iteration; with tasks empty it yields nothing and
\* process_batch returns [].
Gather ==
    /\ mpc = "gather"
    /\ mpc' = IF j = 0 THEN "after_batch" ELSE "join"
    /\ UNCHANGED <<config, stats, chrome_process, browser, stop_log, should_stop, ledger, exc, i,
                   j, batches, stop_calls, chrome_ok, taskVars, atStop, checks,
                   sideVars>>

\* Mutant of ExecutorJoined: an executor left without waiting for its work.
ExecutorJoinedNoWait == TRUE

\* The `with ThreadPoolExecutor(...)` block (line 474) exits through
\* shutdown(wait=True): every work item handed to the executor has run to its
\* end before the block is left.
ExecutorJoined == \A t \in BatchTasks : pc[t] = "done"

\* Leaving the with block with the AttributeError of line 498 pending: it
\* propagates through process_all_urls (line 521) into run()'s handlers.
ExecutorExit ==
    /\ mpc = "join"
    /\ ExecutorJoined
    /\ exc' = "AttributeError"
    /\ mpc' = Raised
    /\ UNCHANGED <<config, stats, chrome_process, browser, stop_log, should_stop, ledger, i, j,
                   batches, stop_calls, chrome_ok, taskVars, atStop, checks,
                   sideVars>>

\* process_all_urls, line 527: the test that guards the periodic save.
SaveDue(processed) == processed % config.progress_save_interval = 0

\* process_all_urls, lines 523-535: processed += len(batch); _save_progress
\* is called when the test of line 527 holds; otherwise the loop goes on
\* with i + batch_size.
AfterBatch ==
    /\ mpc = "after_batch"
    /\ stats' = [stats EXCEPT !.processed = @ + BatchLen]
    /\ IF SaveDue(stats'.processed)
       THEN mpc' = "open_periodic" /\ i' = i
       ELSE mpc' = "batch_loop" /\ i' = i + config.batch_size
    /\ UNCHANGED <<config, chrome_process, browser, stop_log, should_stop, ledger, exc, j,
                   batches, stop_calls, chrome_ok, taskVars, atStop, checks,
                   sideVars>>

\* _save_progress, line 553: open(progress_file, 'w') truncates the file in
\* place; until json.dump has finished the file holds no complete snapshot
\* (it is empty or a prefix of the JSON text), which is ledger = <<>>.
SaveOpen ==
    /\ mpc \in {"open_periodic", "open_final"}
    /\ ledger' = <<>>
    /\ mpc' = IF mpc = "open_periodic" THEN "dump_periodic" ELSE "dump_final"
    /\ UNCHANGED <<config, stats, chrome_process, browser, stop_log, should_stop, exc, i, j,
                   batches, stop_calls, chrome_ok, taskVars, atStop, checks,
                   sideVars>>

\* _save_progress, lines 554-556: json.dump writes the snapshot and the file
\* is closed.  The periodic save returns into the loop of line 513, the final
\* one to the end of process_all_urls (lines 537-538) and of run()'s try.
SaveDump ==
    /\ mpc \in {"dump_periodic", "dump_final"}
    /\ ledger' = save_progress(stats)
    /\ IF mpc = "dump_periodic"
       THEN mpc' = "batch_loop" /\ i' = i + config.batch_size
       ELSE mpc' = "finally" /\ i' = i
    /\ UNCHANGED <<config, stats, chrome_process, browser, stop_log, should_stop, exc, j,
                   batches, stop_calls, chrome_ok, taskVars, atStop, checks,
                   sideVars>>

\* The process dies (SIGKILL, power loss) while _save_progress is running
\* (lines 544-556): nothing of the program runs afterwards.
Crash ==
    /\ mpc \in {"open_periodic", "open_final", "dump_periodic", "dump_final"}
    /\ mpc' = "crashed"
    /\ UNCHANGED <<config, stats, chrome_process, browser, stop_log, should_stop, ledger, exc, i,
                   j, batches, stop_calls, chrome_ok, taskVars, atStop, checks,
                   sideVars>>

\* run(), lines 637-639: the finally clause calls stop_chrome; then main()
\* exits (lines 704-713).
stop_chrome ==
    /\ mpc = "finally"
    /\ stop_chrome_body
    /\ mpc' = "exit"
    /\ UNCHANGED <<config, stats, should_stop, ledger, i, j, batches,
                   chrome_ok, taskVars, atStop, checks,
                   sideVars>>

\* -------------------------------------------------------- worker threads
\* The next pc after a step, with the value an in-place `+= 1` of that pc
\* reads: Python evaluates stats.x += 1 as a read, an add and a store, and
\* another thread may run between the read and the store.
LoadFor(p) ==
    CASE p = "skip_st" -> stats.skipped
      [] p = "succ_st" -> stats.successful
      [] p = "fail_st" -> stats.failed
      [] OTHER -> 0

\* The for loop of line 415 after iteration a (a = 0: before the first).
LoopNext(a) == IF RangeHasNext(a) THEN "attempt" ELSE "fail_st"

\* Mutant of AfterInitialCheck: the result of the initial check is ignored.
AfterInitialCheckNeverSkips(dup) == LoopNext(0)

\* Lines 409-412: a positive initial check skips the URL, otherwise the retry
\* loop is entered.
AfterInitialCheck(dup) == IF dup THEN "skip_st" ELSE LoopNext(0)

\* Mutant of AfterVerify: the trigger's own report is taken as success.
AfterVerifyTrustsTrigger(dup, other) == "succ_st"

\* Lines 428-431 and 436-439: only a positive re-check counts as success;
\* otherwise processing carries on at `other`.
AfterVerify(dup, other) == IF dup THEN "succ_st" ELSE other

\* The ways a call of check_url_exists can end: the backend answers that the
\* URL is a duplicate, that it is not, or the call fails (transport error,
\* timeout, non-success status, body that is not JSON).
Replies == {"dup", "nodup", "error"}

\* Mutant of check_url_exists: a failed call counted as a match.
check_url_exists_FailureMatches(r) == r # "nodup"

\* check_url_exists (lines 320-333): data.get("isDuplicate", False) of the
\* answer; any exception is caught and False is returned.
check_url_exists(r) == r = "dup"

\* A worker thread takes the oldest queued work item and enters
\* process_single_url (lines 484-489, 403-406).
Begin(t) ==
    /\ NextQueued(t)
    /\ WorkerFree
    /\ pc' = [pc EXCEPT ![t] = "check_exists"]
    /\ UNCHANGED <<config, stats, should_stop, mainVars, attempt, waits, loaded,
                   outcome, initDup, triggered, verified, reply, primary, atStop>>

\* Lines 408-412 and 415: the initial check_url_exists, whose call ends as r.
InitialCheck(t) ==
    /\ pc[t] = "check_exists"
    /\ \E r \in Replies :
        LET dup == check_url_exists(r)
            p == AfterInitialCheck(dup) IN
        /\ reply' = [reply EXCEPT ![t] = r]
        /\ initDup' = [initDup EXCEPT ![t] = IF dup THEN "pos" ELSE "neg"]
        /\ pc' = [pc EXCEPT ![t] = p]
        /\ attempt' = [attempt EXCEPT ![t] = IF p = "attempt" THEN 1 ELSE 0]
        /\ loaded' = [loaded EXCEPT ![t] = LoadFor(p)]
    /\ UNCHANGED <<primary, config, stats, should_stop, mainVars, outcome, triggered,
                   verified, atStop, waits>>

\* Line 411-412: the store of stats.skipped += 1, and the return.
StoreSkipped(t) ==
    /\ pc[t] = "skip_st"
    /\ stats' = [stats EXCEPT !.skipped = loaded[t] + 1]
    /\ loaded' = [loaded EXCEPT ![t] = 0]
    /\ pc' = [pc EXCEPT ![t] = "done"]
    /\ outcome' = [outcome EXCEPT ![t] = "Skipped"]
    /\ reply' = [reply EXCEPT ![t] = "none"]
    /\ UNCHANGED <<primary, config, should_stop, mainVars, attempt, waits, initDup, triggered,
                   verified, atStop>>

\* Lines 416-417: the only place process_single_url reads should_stop.
AttemptTop(t) ==
    /\ pc[t] = "attempt"
    /\ IF should_stop
       THEN /\ pc' = [pc EXCEPT ![t] = "done"]
            /\ outcome' = [outcome EXCEPT ![t] = "Aborted"]
            /\ reply' = [reply EXCEPT ![t] = "none"]
       ELSE /\ pc' = [pc EXCEPT ![t] = "devtools"]
            /\ UNCHANGED <<outcome, reply>>
    /\ UNCHANGED <<primary, config, stats, should_stop, mainVars, attempt, waits, loaded,
                   initDup, triggered, verified, atStop>>

\* Mutant of AfterTrigger: a trigger's failure ends the URL as failed.
AfterTriggerFailureFatal(ok, onTrue, onFalse) ==
    IF ok THEN onTrue ELSE "fail_st"

\* Lines 423-425 and 435-436: a trigger returns True or, having caught its
\* own exception or timeout, False; `if success` selects what follows.
AfterTrigger(ok, onTrue, onFalse) == IF ok THEN onTrue ELSE onFalse

\* Line 423: the primary trigger process_url_via_chrome_devtools (lines
\* 335-368) returns True or, on any exception, False.
DevtoolsReturn(t, ok) ==
    /\ pc' = [pc EXCEPT ![t] = AfterTrigger(ok, "verify", "has_helper")]
    /\ primary' = [primary EXCEPT ![t] = IF ok THEN "True" ELSE "False"]
    /\ reply' = [reply EXCEPT ![t] = "none"]
    /\ triggered' = [triggered EXCEPT ![t] = TRUE]
    /\ verified' = [verified EXCEPT ![t] = FALSE]

process_url_via_chrome_devtools(t) ==
    /\ pc[t] = "devtools"
    /\ \E ok \in BOOLEAN : DevtoolsReturn(t, ok)
    /\ UNCHANGED <<config, stats, should_stop, mainVars, attempt, waits, loaded,
                   outcome, initDup, atStop>>

\* Lines 425-431: after the 2 s settle sleep, the verifying check_url_exists.
Verify(t) ==
    /\ pc[t] = "verify"
    /\ \E r \in Replies :
        LET dup == check_url_exists(r)
            p == AfterVerify(dup, "has_helper") IN
        /\ verified' = [verified EXCEPT ![t] = dup]
        /\ pc' = [pc EXCEPT ![t] = p]
        /\ loaded' = [loaded EXCEPT ![t] = LoadFor(p)]
        /\ primary' = IF p = "succ_st"
                       THEN [primary EXCEPT ![t] = "none"]
                       ELSE primary
    /\ UNCHANGED <<config, stats, should_stop, mainVars, attempt, waits, outcome,
                   initDup, triggered, reply, atStop>>

\* Line 434: os.path.exists("tab_opener.sh").
HasHelper(t) ==
    /\ pc[t] = "has_helper"
    /\ \E present \in BOOLEAN :
        pc' = [pc EXCEPT ![t] = IF present THEN "tab_opener" ELSE "retry"]
    /\ primary' = [primary EXCEPT ![t] = "none"]
    /\ UNCHANGED <<config, stats, should_stop, mainVars, attempt, waits, loaded,
                   outcome, initDup, triggered, verified, reply, atStop>>

\* Line 435: the secondary trigger process_url_via_tab_opener (lines
\* 370-401); line 436 checks the backend only when it returned True.
process_url_via_tab_opener(t) ==
    /\ pc[t] = "tab_opener"
    /\ \E ok \in BOOLEAN :
        pc' = [pc EXCEPT ![t] = AfterTrigger(ok, "verify2", "retry")]
    /\ triggered' = [triggered EXCEPT ![t] = TRUE]
    /\ verified' = [verified EXCEPT ![t] = FALSE]
    /\ UNCHANGED <<config, stats, should_stop, mainVars, attempt, waits, loaded,
                   outcome, initDup, reply, primary, atStop>>

\* Lines 436-439: the verifying check_url_exists after tab_opener.
Verify2(t) ==
    /\ pc[t] = "verify2"
    /\ \E r \in Replies :
        LET dup == check_url_exists(r)
            p == AfterVerify(dup, "retry") IN
        /\ verified' = [verified EXCEPT ![t] = dup]
        /\ pc' = [pc EXCEPT ![t] = p]
        /\ loaded' = [loaded EXCEPT ![t] = LoadFor(p)]
    /\ UNCHANGED <<config, stats, should_stop, mainVars, attempt, waits, outcome,
                   initDup, triggered, reply, primary, atStop>>

\* Lines 444-447 and 415: after a failed attempt that is not the last, sleep
\* retry_delay and start the next iteration.
RetryWait(t) ==
    /\ pc[t] = "retry"
    /\ RangeHasNext(attempt[t])
    /\ attempt' = [attempt EXCEPT ![t] = @ + 1]
    /\ waits' = [waits EXCEPT ![t] = Slept(@, attempt[t])]
    /\ pc' = [pc EXCEPT ![t] = "attempt"]
    /\ UNCHANGED <<config, stats, should_stop, mainVars, loaded, outcome,
                   initDup, triggered, verified, reply, primary, atStop>>

\* Lines 445, 415 and 449-452: after the last attempt the loop ends without
\* reading should_stop and stats.failed += 1 begins.
Exhausted(t) ==
    /\ pc[t] = "retry"
    /\ ~RangeHasNext(attempt[t])
    /\ pc' = [pc EXCEPT ![t] = "fail_st"]
    /\ loaded' = [loaded EXCEPT ![t] = LoadFor("fail_st")]
    /\ waits' = [waits EXCEPT ![t] = Slept(@, attempt[t])]
    /\ UNCHANGED <<config, stats, should_stop, mainVars, attempt, outcome,
                   initDup, triggered, verified, reply, primary, atStop>>

\* Lines 430-431 and 438-439: the store of stats.successful += 1, and the
\* return.
StoreSuccessful(t) ==
    /\ pc[t] = "succ_st"
    /\ stats' = [stats EXCEPT !.successful = loaded[t] + 1]
    /\ loaded' = [loaded EXCEPT ![t] = 0]
    /\ pc' = [pc EXCEPT ![t] = "done"]
    /\ outcome' = [outcome EXCEPT ![t] = "Succeeded"]
    /\ UNCHANGED <<config, should_stop, mainVars, attempt, waits, initDup, triggered,
                   verified, reply, primary, atStop>>

\* Lines 450-455: the store of stats.failed += 1, errors.append and the
\* return.  The record's error is "Failed after <max_retries> attempts".
StoreFailed(t) ==
    /\ pc[t] = "fail_st"
    /\ stats' = [stats EXCEPT
                   !.failed = loaded[t] + 1,
                   !.errors = Append(@, [url |-> t, error |-> config.max_retries])]
    /\ loaded' = [loaded EXCEPT ![t] = 0]
    /\ pc' = [pc EXCEPT ![t] = "done"]
    /\ outcome' = [outcome EXCEPT ![t] = "Failed"]
    /\ reply' = [reply EXCEPT ![t] = "none"]
    /\ UNCHANGED <<primary, config, should_stop, mainVars, attempt, waits, initDup, triggered,
                   verified, atStop>>

\* ---------------------------------------------------- the CSV reader
\* Text is a tuple of one-character strings, so that strip(), lower(),
\* startswith() and `in` are computed on it.
http == <<"h", "t", "t", "p">>
UrlA == http \o <<":", "a">>
UrlB == http \o <<":", "b">>

\* The field texts the input files are built from: two URLs, one of them
\* also with a leading blank, column names with and without an indicator,
\* a name, and the empty text.
TxtUrl == <<"u", "r", "l">>
TxtProfileLink == <<"M", "y", "L", "I", "N", "K">>
TxtName == <<"n", "a", "m", "e">>
TxtX == <<"x">>
TxtSpaceUrlA == <<" ">> \o UrlA

\* The records of an input file as csv.reader splits them, with the one
\* property of the raw line the code looks at besides: whether the fields
\* are written in double quotes.  A record without fields is a blank line.
Rec(fields, quoted) == [fields |-> fields, quoted |-> quoted]

CsvRows ==
    { Rec(<<UrlA>>, FALSE), Rec(<<UrlB>>, FALSE), Rec(<<UrlA>>, TRUE),
      Rec(<<TxtSpaceUrlA>>, FALSE), Rec(<<TxtUrl>>, FALSE),
      Rec(<<TxtName, TxtProfileLink>>, FALSE), Rec(<<TxtName, TxtX>>, FALSE),
      Rec(<<TxtX, UrlA>>, FALSE), Rec(<<TxtX, UrlB>>, TRUE),
      Rec(<<UrlB, TxtX>>, FALSE), Rec(<<TxtX>>, FALSE), Rec(<<>>, FALSE) }

\* The input files: up to MaxLines records.
CsvFiles == UNION {[1..n -> CsvRows] : n \in 0..MaxLines}

\* str.lower() on the letters that occur.
LowerChar(c) ==
    CASE c = "M" -> "m" [] c = "Y" -> "y" [] c = "L" -> "l"
      [] c = "I" -> "i" [] c = "N" -> "n" [] c = "K" -> "k"
      [] OTHER -> c

Lower(s) == [k \in DOMAIN s |-> LowerChar(s[k])]

\* str.strip(): leading and trailing blanks removed.
RECURSIVE LStrip(_)
LStrip(s) ==
    IF s # <<>> /\ Head(s) = " " THEN LStrip(Tail(s)) ELSE s

RECURSIVE RStrip(_)
RStrip(s) ==
    IF s # <<>> /\ s[Len(s)] = " "
    THEN RStrip(SubSeq(s, 1, Len(s) - 1)) ELSE s

Strip(s) == RStrip(LStrip(s))

\* s.startswith(p) and `p in s`.
StartsWith(s, p) == Len(s) >= Len(p) /\ SubSeq(s, 1, Len(p)) = p

Contains(s, p) ==
    \E k \in 1..(Len(s) - Len(p) + 1) : SubSeq(s, k, k + Len(p) - 1) = p

\* The raw text of a record's line: its fields, quoted or not, joined by
\* commas.
RECURSIVE RawFields(_, _)
RawFields(fields, quoted) ==
    IF fields = <<>> THEN <<>>
    ELSE (IF quoted THEN <<"\"">> \o Head(fields) \o <<"\"">>
                    ELSE Head(fields))
         \o (IF Len(fields) > 1 THEN <<",">> ELSE <<>>)
         \o RawFields(Tail(fields), quoted)

\* sample.split('\n')[0], line 283-287: the raw first line of the file (the
\* empty text for an empty file).
FirstLine(file) ==
    IF file = <<>> THEN <<>> ELSE RawFields(file[1].fields, file[1].quoted)

\* Line 287: not sample.split('\n')[0].strip().startswith('http').
has_header(file) == ~StartsWith(Strip(FirstLine(file)), http)

\* url_indicators of line 311 ("url", "link", "address", "page", "realtor").
url_indicators ==
    { TxtUrl, <<"l", "i", "n", "k">>,
      <<"a", "d", "d", "r", "e", "s", "s">>, <<"p", "a", "g", "e">>,
      <<"r", "e", "a", "l", "t", "o", "r">> }

\* _detect_url_column (lines 305-318): "url" for no field names, else the
\* first name that contains an indicator in lower case, else the first name.
RECURSIVE FirstIndicated(_, _)
FirstIndicated(fieldnames, k) ==
    IF k > Len(fieldnames) THEN fieldnames[1]
    ELSE IF \E ind \in url_indicators : Contains(Lower(fieldnames[k]), ind)
         THEN fieldnames[k]
         ELSE FirstIndicated(fieldnames, k + 1)

detect_url_column(fieldnames) ==
    IF fieldnames = <<>> THEN TxtUrl ELSE FirstIndicated(fieldnames, 1)

\* row.get(url_column, '') on the dictionary csv.DictReader builds from
\* zip(fieldnames, row): of several columns with the same name the last one
\* counts, a column the row is too short for holds None, and a name that is
\* no column gives the default ''.
RowGet(fieldnames, fields, column) ==
    LET ks == {k \in DOMAIN fieldnames : fieldnames[k] = column} IN
    IF ks = {} THEN [none |-> FALSE, text |-> <<>>]
    ELSE LET k == CHOOSE x \in ks : \A y \in ks : y <= x IN
         IF k <= Len(fields) THEN [none |-> FALSE, text |-> fields[k]]
         ELSE [none |-> TRUE, text |-> <<>>]

\* Lines 289-295: the DictReader loop over the records from the k-th on.
\* Blank lines are skipped by DictReader; None.strip() raises
\* AttributeError, which leaves load_urls_from_csv.
RECURSIVE ReadDict(_, _, _, _)
ReadDict(file, k, fieldnames, column) ==
    IF k > Len(file) THEN [raised |-> FALSE, urls |-> <<>>]
    ELSE IF file[k].fields = <<>>
         THEN ReadDict(file, k + 1, fieldnames, column)
    ELSE LET v == RowGet(fieldnames, file[k].fields, column)
             rest == ReadDict(file, k + 1, fieldnames, column) IN
         IF v.none THEN [raised |-> TRUE, urls |-> <<>>]
         ELSE IF rest.raised THEN rest
         ELSE IF Strip(v.text) # <<>>
              THEN [raised |-> FALSE, urls |-> <<Strip(v.text)>> \o rest.urls]
              ELSE rest

\* Lines 296-300: the csv.reader loop over the records from the k-th on.
RECURSIVE ReadPlain(_, _)
ReadPlain(file, k) ==
    IF k > Len(file) THEN <<>>
    ELSE IF file[k].fields # <<>> /\ Strip(file[k].fields[1]) # <<>>
         THEN <<Strip(file[k].fields[1])>> \o ReadPlain(file, k + 1)
         ELSE ReadPlain(file, k + 1)

\* load_urls_from_csv (lines 275-303) on a file.  DictReader takes the
\* first line, blank or not, as the field names.
LoadUrls(file) ==
    IF has_header(file)
    THEN LET fieldnames == IF file = <<>> THEN <<>> ELSE file[1].fields
             r == ReadDict(file, 2, fieldnames,
                           detect_url_column(fieldnames)) IN
         [done |-> TRUE, raised |-> r.raised, urls |-> r.urls]
    ELSE [done |-> TRUE, raised |-> FALSE, urls |-> ReadPlain(file, 1)]

\* main(), lines 703-713: the exit status.  asyncio.run(processor.run())
\* returning gives 0, a KeyboardInterrupt 130, any other exception 1.
ExitCode ==
    CASE exc = "none" -> 0
      [] exc = "KeyboardInterrupt" -> 130
      [] OTHER -> 1

\* ------------------------------------------------------- specification
Next ==
    \/ signal_handler
    \/ setup
    \/ start_chrome
    \/ load_urls_from_csv
    \/ StartBatch
    \/ FinishAll
    \/ SubmitTask
    \/ SubmitBreak
    \/ Gather
    \/ ExecutorExit
    \/ AfterBatch
    \/ SaveOpen
    \/ SaveDump
    \/ Crash
    \/ stop_chrome
    \/ \E t \in Tasks :
        \/ Begin(t)
        \/ InitialCheck(t)
        \/ StoreSkipped(t)
        \/ AttemptTop(t)
        \/ process_url_via_chrome_devtools(t)
        \/ Verify(t)
        \/ HasHelper(t)
        \/ process_url_via_tab_opener(t)
        \/ Verify2(t)
        \/ RetryWait(t)
        \/ Exhausted(t)
        \/ StoreSuccessful(t)
        \/ StoreFailed(t)

Spec == Init /\ [][Next]_vars

\* ------------------------------------------------- the run under fairness
\* The steps of the main thread: run() and what it awaits (lines 615-639).
\* Every call it waits on returns or times out, so a step that can be taken
\* is taken.
MainStep ==
    \/ setup
    \/ start_chrome
    \/ load_urls_from_csv
    \/ StartBatch
    \/ FinishAll
    \/ SubmitTask
    \/ SubmitBreak
    \/ Gather
    \/ ExecutorExit
    \/ AfterBatch
    \/ SaveOpen
    \/ SaveDump
    \/ stop_chrome

\* The steps of the worker thread that runs process_single_url for task t
\* (lines 484-489 and 403-455).
TaskStep(t) ==
    \/ Begin(t)
    \/ InitialCheck(t)
    \/ StoreSkipped(t)
    \/ AttemptTop(t)
    \/ process_url_via_chrome_devtools(t)
    \/ Verify(t)
    \/ HasHelper(t)
    \/ process_url_via_tab_opener(t)
    \/ Verify2(t)
    \/ RetryWait(t)
    \/ Exhausted(t)
    \/ StoreSuccessful(t)
    \/ StoreFailed(t)

\* A step of the program: of its main thread or of one of its workers.
ProgramStep == MainStep \/ \E t \in Tasks : TaskStep(t)

\* The program left to run: a signal may arrive at any point or never, and
\* the process is not killed from outside.
NextLive ==
    \/ signal_handler
    \/ MainStep
    \/ \E t \in Tasks : TaskStep(t)

\* The command lines the fair run is checked for: of each of max_retries,
\* batch_size and max_workers the smallest and the largest value, and of
\* max_workers also 1, where the tasks of a batch queue for one thread.
InitLive ==
    /\ Init
    /\ config.max_retries \in {0, MaxRetries}
    /\ config.batch_size \in {0, MaxBatch}
    /\ config.max_workers \in {0, 1, MaxWorkers}

\* The threads are scheduled by the operating system and every call they
\* wait on returns or times out: as long as some thread of the program can
\* take a step, a step is taken.
SpecLive ==
    /\ InitLive
    /\ [][NextLive]_vars
    /\ WF_vars(ProgramStep)

\* ------------------------------------------- the supervisor on its own
\* start_chrome and stop_chrome are public coroutines of BatchProcessor
\* (lines 203 and 249).  This specification drives the two from the
\* constructed object in any order and any number of times, as a caller
\* other than run() may.
api_start_chrome ==
    /\ \E r \in {"popen_raises", "probe_fails", "ok"} :
        start_chrome_body(r)
    /\ UNCHANGED <<config, stats, should_stop, ledger, mpc, exc, i, j,
                   batches, stop_calls, taskVars, atStop, checks,
                   sideVars>>

api_stop_chrome ==
    /\ stop_calls < MaxStopCalls
    /\ stop_chrome_body
    /\ UNCHANGED <<config, stats, should_stop, ledger, mpc, i, j, batches,
                   chrome_ok, taskVars, atStop, checks,
                   sideVars>>

NextSupervisor == api_start_chrome \/ api_stop_chrome

SpecSupervisor == Init /\ [][NextSupervisor]_vars

\* ------------------------------------------- the CSV reader on its own
\* load_urls_from_csv applied to the content of the CSV file.  The run is
\* where run() calls it (line 626): the gate has passed and Chrome is up.
InitCsv ==
    /\ csv_in \in CsvFiles
    /\ config = [batch_size |-> 2, max_workers |-> 2, max_retries |-> 2,
                 progress_save_interval |-> 2, chrome_binary |-> "chromium"]
    /\ stats = ProcessingStats
    /\ chrome_process = "proc"
    /\ browser = "running"
    /\ stop_log = <<>>
    /\ should_stop = FALSE
    /\ ledger = save_progress(ProcessingStats)
    /\ mpc = "load"
    /\ exc = "none"
    /\ i = 0
    /\ j = 0
    /\ pc = [t \in Tasks |-> "idle"]
    /\ attempt = [t \in Tasks |-> 0]
    /\ waits = [t \in Tasks |-> <<>>]
    /\ loaded = [t \in Tasks |-> 0]
    /\ outcome = [t \in Tasks |-> "none"]
    /\ initDup = [t \in Tasks |-> "none"]
    /\ triggered = [t \in Tasks |-> FALSE]
    /\ verified = [t \in Tasks |-> FALSE]
    /\ atStop = {}
    /\ batches = <<>>
    /\ stop_calls = 0
    /\ chrome_ok = "True"
    /\ reply = [t \in Tasks |-> "none"]
    /\ primary = [t \in Tasks |-> "none"]
    /\ checks = [k \in DOMAIN GateOrder |-> [name |-> GateOrder[k], ok |-> TRUE]]
    /\ csv_out = NotRead
    /\ tabs = <<>>
    /\ seen = [t \in Tasks |-> <<>>]
    /\ tab_of = [t \in Tasks |-> NoTab]
    /\ OpenerIdle

\* Lines 275-303: the file is read once and the URL list returned.
read_csv ==
    /\ mpc = "load"
    /\ ~csv_out.done
    /\ csv_out' = LoadUrls(csv_in)
    /\ UNCHANGED <<config, stats, should_stop, mpc, exc, i, j,
                   chrome_process, browser, stop_log, ledger, batches, stop_calls, chrome_ok,
                   checks, taskVars, atStop, csv_in, tabs, seen, tab_of,
                   openerVars>>

NextCsv == read_csv

SpecCsv == InitCsv /\ [][NextCsv]_vars

\* ------------------------------------- the DevTools trigger step by step
\* process_url_via_chrome_devtools (lines 335-368) request by request, for
\* the tasks a batch has running at the same time.  The run is where the
\* first batch has been submitted and its first tasks are each about to call
\* the trigger in their first attempt; Chrome shows its first tab, or none.
Started == 1..Min(MaxWorkers, MaxUrls)

InitTabs ==
    /\ tabs \in {<<>>, <<FirstTab>>}
    /\ seen = [t \in Tasks |-> <<>>]
    /\ tab_of = [t \in Tasks |-> NoTab]
    /\ OpenerIdle
    /\ config = [batch_size |-> MaxBatch, max_workers |-> MaxWorkers,
                 max_retries |-> MaxRetries, progress_save_interval |-> 1,
                 chrome_binary |-> "chromium"]
    /\ stats = [ProcessingStats EXCEPT !.total = MaxUrls]
    /\ chrome_process = "proc"
    /\ browser = "running"
    /\ stop_log = <<>>
    /\ should_stop = FALSE
    /\ ledger = save_progress(ProcessingStats)
    /\ mpc = "gather"
    /\ exc = "none"
    /\ i = 0
    /\ j = MaxUrls
    /\ pc = [t \in Tasks |-> IF t \in Started THEN "devtools" ELSE "queued"]
    /\ attempt = [t \in Tasks |-> IF t \in Started THEN 1 ELSE 0]
    /\ waits = [t \in Tasks |-> <<>>]
    /\ loaded = [t \in Tasks |-> 0]
    /\ outcome = [t \in Tasks |-> "none"]
    /\ initDup = [t \in Tasks |-> IF t \in Started THEN "neg" ELSE "none"]
    /\ triggered = [t \in Tasks |-> FALSE]
    /\ verified = [t \in Tasks |-> FALSE]
    /\ atStop = {}
    /\ batches = <<[start |-> 0, size |-> MaxUrls]>>
    /\ stop_calls = 0
    /\ chrome_ok = "True"
    /\ reply = [t \in Tasks |-> IF t \in Started THEN "nodup" ELSE "none"]
    /\ primary = [t \in Tasks |-> "none"]
    /\ checks = [k \in DOMAIN GateOrder |-> [name |-> GateOrder[k], ok |-> TRUE]]
    /\ csv_in = <<>>
    /\ csv_out = NotRead

\* What the steps of the trigger leave alone.
tabsFrame ==
    <<config, stats, should_stop, mpc, exc, i, j, chrome_process, browser, stop_log, ledger,
      batches, stop_calls, chrome_ok, checks, csv_in, csv_out, attempt, waits,
      loaded, outcome, initDup, atStop, openerVars>>

\* Lines 338-340: GET /json gives the list of open tabs; a failed request
\* raises, and the function returns False (lines 366-368).
devtools_get_tabs(t) ==
    /\ pc[t] = "devtools"
    /\ \E ok \in BOOLEAN :
        IF ok
        THEN /\ seen' = [seen EXCEPT ![t] = tabs]
             /\ pc' = [pc EXCEPT ![t] = "devtools_tabs"]
             /\ UNCHANGED <<primary, reply, triggered, verified>>
        ELSE /\ DevtoolsReturn(t, FALSE)
             /\ seen' = seen
    /\ UNCHANGED <<tabs, tab_of, tabsFrame>>

\* Lines 343-354: with no tab in the list a tab is created for the URL
\* (POST /json/new); otherwise the first tab of the list is taken as it is.
devtools_take_tab(t) ==
    /\ pc[t] = "devtools_tabs"
    /\ seen' = [seen EXCEPT ![t] = <<>>]
    /\ IF seen[t] = <<>>
       THEN \E ok \in BOOLEAN :
            IF ok
            THEN /\ tabs' = Append(tabs, NewTab(t, attempt[t]))
                 /\ tab_of' = [tab_of EXCEPT ![t] = NewTab(t, attempt[t])]
                 /\ pc' = [pc EXCEPT ![t] = "devtools_wait"]
                 /\ UNCHANGED <<primary, reply, triggered, verified>>
            ELSE /\ DevtoolsReturn(t, FALSE)
                 /\ UNCHANGED <<tabs, tab_of>>
       ELSE /\ tab_of' = [tab_of EXCEPT ![t] = seen[t][1]]
            /\ pc' = [pc EXCEPT ![t] = "devtools_wait"]
            /\ UNCHANGED <<tabs, primary, reply, triggered, verified>>
    /\ UNCHANGED tabsFrame

\* Lines 357-364: after the sleep of extraction_timeout the tab held is
\* closed by its id (POST /json/close/<id>), whoever opened it, and True is
\* returned; a failed request raises, and False is returned.
devtools_close_tab(t) ==
    /\ pc[t] = "devtools_wait"
    /\ \E ok \in BOOLEAN :
        /\ tabs' = IF ok THEN SelectSeq(tabs, LAMBDA x : x # tab_of[t])
                         ELSE tabs
        /\ DevtoolsReturn(t, ok)
    /\ tab_of' = [tab_of EXCEPT ![t] = NoTab]
    /\ UNCHANGED <<seen, tabsFrame>>

\* The trigger's steps, and around them the rest of the attempts of
\* process_single_url, which call the trigger again after a failed attempt.
NextTabs ==
    \E t \in Tasks :
        \/ devtools_get_tabs(t)
        \/ devtools_take_tab(t)
        \/ devtools_close_tab(t)
        \/ Verify(t)
        \/ HasHelper(t)
        \/ process_url_via_tab_opener(t)
        \/ Verify2(t)
        \/ RetryWait(t)
        \/ Exhausted(t)
        \/ AttemptTop(t)
        \/ StoreSuccessful(t)
        \/ StoreFailed(t)

SpecTabs == InitTabs /\ [][NextTabs]_vars

\* ---------------------------------- the secondary trigger step by step
\* process_url_via_tab_opener (lines 370-401) step by step, for the tasks a
\* batch has running at the same time.  The run is where the first batch has
\* been submitted and its first tasks, the primary trigger having failed in
\* their first attempt, are each about to call the secondary trigger.
InitOpener ==
    /\ clock = 1
    /\ files = [c \in Seconds |-> NoFile]
    /\ temp_csv = [t \in Tasks |-> 0]
    /\ helper = [t \in Tasks |-> NoHelper]
    /\ tabs = <<>>
    /\ seen = [t \in Tasks |-> <<>>]
    /\ tab_of = [t \in Tasks |-> NoTab]
    /\ config = [batch_size |-> MaxBatch, max_workers |-> MaxWorkers,
                 max_retries |-> MaxRetries, progress_save_interval |-> 1,
                 chrome_binary |-> "chromium"]
    /\ stats = [ProcessingStats EXCEPT !.total = MaxUrls]
    /\ chrome_process = "proc"
    /\ browser = "running"
    /\ stop_log = <<>>
    /\ should_stop = FALSE
    /\ ledger = save_progress(ProcessingStats)
    /\ mpc = "gather"
    /\ exc = "none"
    /\ i = 0
    /\ j = MaxUrls
    /\ pc = [t \in Tasks |-> IF t \in Started THEN "tab_opener" ELSE "queued"]
    /\ attempt = [t \in Tasks |-> IF t \in Started THEN 1 ELSE 0]
    /\ waits = [t \in Tasks |-> <<>>]
    /\ loaded = [t \in Tasks |-> 0]
    /\ outcome = [t \in Tasks |-> "none"]
    /\ initDup = [t \in Tasks |-> IF t \in Started THEN "neg" ELSE "none"]
    /\ triggered = [t \in Tasks |-> t \in Started]
    /\ verified = [t \in Tasks |-> FALSE]
    /\ atStop = {}
    /\ batches = <<[start |-> 0, size |-> MaxUrls]>>
    /\ stop_calls = 0
    /\ chrome_ok = "True"
    /\ reply = [t \in Tasks |-> "none"]
    /\ primary = [t \in Tasks |-> "none"]
    /\ checks = [k \in DOMAIN GateOrder |-> [name |-> GateOrder[k], ok |-> TRUE]]
    /\ csv_in = <<>>
    /\ csv_out = NotRead

\* What the steps of the secondary trigger leave alone.
openerFrame ==
    <<config, stats, should_stop, mpc, exc, i, j, chrome_process, browser,
      stop_log, ledger, batches, stop_calls, chrome_ok, checks, csv_in,
      csv_out, tabs, seen, tab_of, attempt, waits, loaded, outcome, initDup,
      reply, primary, atStop>>

\* Lines 397 and 399-401: the secondary trigger returns whether the helper
\* exited with code 0 or, on any exception, False; its locals are gone.
TabOpenerReturn(t, ok) ==
    /\ pc' = [pc EXCEPT ![t] = AfterTrigger(ok, "verify2", "retry")]
    /\ triggered' = [triggered EXCEPT ![t] = TRUE]
    /\ verified' = [verified EXCEPT ![t] = FALSE]
    /\ temp_csv' = [temp_csv EXCEPT ![t] = 0]
    /\ helper' = [helper EXCEPT ![t] = NoHelper]

\* time.time() moves on to the next second.
Tick ==
    /\ clock < MaxClock
    /\ clock' = clock + 1
    /\ UNCHANGED <<files, temp_csv, helper, pc, triggered, verified,
                   openerFrame>>

\* Lines 374-376: the name is built from the second on the clock, and
\* open(temp_csv, 'w') creates the file or truncates the one of that name;
\* the URL is written as its only line.  A failed open raises.
opener_write(t) ==
    /\ pc[t] = "tab_opener"
    /\ \E ok \in BOOLEAN :
        IF ok
        THEN /\ temp_csv' = [temp_csv EXCEPT ![t] = clock]
             /\ files' = [files EXCEPT ![clock] = SingleUrlFile(t)]
             /\ pc' = [pc EXCEPT ![t] = "opener_spawn"]
             /\ UNCHANGED <<helper, triggered, verified>>
        ELSE /\ TabOpenerReturn(t, FALSE)
             /\ files' = files
    /\ UNCHANGED <<clock, openerFrame>>

\* Lines 379-384: ./tab_opener.sh is started with the file's name as its
\* argument; a script that cannot be executed raises.
opener_spawn(t) ==
    /\ pc[t] = "opener_spawn"
    /\ \E ok \in BOOLEAN :
        IF ok
        THEN /\ helper' = [helper EXCEPT ![t] = [st |-> "running",
                                                 got |-> NoFile]]
             /\ pc' = [pc EXCEPT ![t] = "opener_wait"]
             /\ UNCHANGED <<temp_csv, triggered, verified>>
        ELSE TabOpenerReturn(t, FALSE)
    /\ UNCHANGED <<clock, files, openerFrame>>

\* The helper process, while the task awaits it at lines 386-389: it reads
\* the file named by its argument, as that name stands at that moment, and
\* exits.
helper_run(t) ==
    /\ pc[t] = "opener_wait"
    /\ helper[t].st = "running"
    /\ helper' = [helper EXCEPT ![t] = [st |-> "done",
                                        got |-> files[temp_csv[t]]]]
    /\ UNCHANGED <<clock, files, temp_csv, pc, triggered, verified,
                   openerFrame>>

\* Lines 386-397: communicate() returns once the helper has exited; the
\* file of the name in temp_csv is removed (a failure to remove is passed
\* over) and the exit code decides the result.
opener_done(t) ==
    /\ pc[t] = "opener_wait"
    /\ helper[t].st = "done"
    /\ files' = [files EXCEPT ![temp_csv[t]] = NoFile]
    /\ \E ok \in BOOLEAN : TabOpenerReturn(t, ok)
    /\ UNCHANGED <<clock, openerFrame>>

\* Lines 386-389 and 399-401: extraction_timeout passes before the helper
\* has exited; wait_for raises TimeoutError, and False is returned with the
\* file left in place.
opener_timeout(t) ==
    /\ pc[t] = "opener_wait"
    /\ helper[t].st = "running"
    /\ TabOpenerReturn(t, FALSE)
    /\ UNCHANGED <<clock, files, openerFrame>>

\* The trigger's steps and the clock, and around them the rest of the
\* attempts of process_single_url, which call the trigger again after a
\* failed attempt.
NextOpener ==
    \/ Tick
    \/ \E t \in Tasks :
        \/ opener_write(t)
        \/ opener_spawn(t)
        \/ helper_run(t)
        \/ opener_done(t)
        \/ opener_timeout(t)
        \/ Verify2(t)
        \/ RetryWait(t)
        \/ Exhausted(t)
        \/ AttemptTop(t)
        \/ process_url_via_chrome_devtools(t)
        \/ Verify(t)
        \/ HasHelper(t)
        \/ StoreSuccessful(t)
        \/ StoreFailed(t)

SpecOpener == InitOpener /\ [][NextOpener]_vars

\* ---------------------------------------------------------------- claims
Sum(s) == s.successful + s.failed + s.skipped

OutcomeCount(o) == Cardinality({t \in Tasks : outcome[t] = o})

ErrorsOf(t) == {k \in DOMAIN stats.errors : stats.errors[k].url = t}

\* process_all_urls has ended: normally (after the final save) or through the
\* exception of process_batch.
RunEnded == mpc \in {"finally", "exit"} /\ stats.total > 0

\* C1: processed = successful + failed + skipped in every snapshot written to
\* the Progress Ledger and at the end of process_all_urls.
C1_StatsBalanced ==
    /\ \A k \in DOMAIN ledger : ledger[k].processed = Sum(ledger[k])
    /\ RunEnded => stats.processed = Sum(stats)

\* C2: a task whose initial check was negative and whose verifications all
\* failed, with no shutdown requested, ends Failed after exactly max_retries
\* attempts with exactly one record {url, "Failed after max_retries
\* attempts"}; no task is ever recorded or counted more than once, and a task
\* that is alone on the failure path takes failed from 0 to 1.
C2_RetryBound ==
    /\ \A t \in Tasks :
        /\ (pc[t] = "done" /\ initDup[t] = "neg" /\ ~verified[t] /\ ~should_stop)
            => /\ outcome[t] = "Failed"
               /\ attempt[t] = config.max_retries
               /\ Cardinality(ErrorsOf(t)) = 1
               /\ \A k \in ErrorsOf(t) :
                    stats.errors[k] = [url |-> t, error |-> config.max_retries]
               /\ stats.failed >= 1
        /\ Cardinality(ErrorsOf(t)) <= 1
        /\ ErrorsOf(t) # {} => outcome[t] = "Failed"
        /\ attempt[t] <= config.max_retries
    /\ stats.failed <= OutcomeCount("Failed")
    /\ (OutcomeCount("Failed") = 1 /\ \A u \in Tasks : pc[u] # "fail_st")
        => stats.failed = 1

\* C2 witness: with max_retries = 2 and no shutdown a task has ended Failed
\* after two attempts.
C2_Witness ==
    \E t \in Tasks :
        /\ outcome[t] = "Failed"
        /\ config.max_retries = 2
        /\ attempt[t] = 2
        /\ triggered[t]
        /\ ~should_stop

\* C3: a task ends Skipped exactly when its initial duplicate check was
\* positive; then it has called no trigger and used no attempt, and skipped
\* has been incremented.  When one task of the run met a duplicate (x) and
\* another did not (y), skipped = 1 and y entered the extraction path.
C3_SkipIffDuplicate ==
    /\ \A t \in Tasks :
        /\ outcome[t] = "Skipped" <=> (pc[t] = "done" /\ initDup[t] = "pos")
        /\ initDup[t] = "pos" => (~triggered[t] /\ attempt[t] = 0)
        /\ outcome[t] = "Skipped" => stats.skipped >= 1
        /\ (initDup[t] = "neg" /\ pc[t] = "done")
            => (outcome[t] # "Skipped"
                /\ (triggered[t] \/ outcome[t] = "Aborted"
                    \/ config.max_retries = 0))
    /\ stats.skipped <= OutcomeCount("Skipped")
    /\ (OutcomeCount("Skipped") = 1
        /\ Cardinality({t \in Tasks : initDup[t] = "pos"}) = 1)
        => stats.skipped = 1

\* C3 witness: of two processed tasks one was skipped as a duplicate and the
\* other went through extraction; skipped = 1.
C3_Witness ==
    \E x, y \in Tasks :
        /\ outcome[x] = "Skipped"
        /\ initDup[y] = "neg"
        /\ pc[y] = "done"
        /\ triggered[y]
        /\ stats.skipped = 1

\* C4: a task is counted successful only after a duplicate check, made after
\* a trigger of the same attempt, returned a positive match.
C4_SuccessOnlyVerified ==
    /\ \A t \in Tasks :
        (pc[t] = "succ_st" \/ outcome[t] = "Succeeded")
            => (triggered[t] /\ verified[t] /\ attempt[t] >= 1)
    /\ stats.successful <= OutcomeCount("Succeeded")

\* C4 witness: a task succeeded on its second attempt, the first one having
\* ended without a positive re-check.
C4_Witness ==
    \E t \in Tasks :
        outcome[t] = "Succeeded" /\ attempt[t] = 2 /\ stats.successful = 1

\* C5: once should_stop is set, no batch starts and no task that has not begun
\* process_single_url begins it, queued tasks included.
C5_NoStartAfterStop ==
    [][should_stop =>
        /\ ~(mpc = "batch_loop" /\ mpc' = "submit")
        /\ \A t \in Tasks :
            pc[t] \in {"idle", "queued"} => pc'[t] \in {"idle", "queued"}]_vars

\* C6: a task that was executing process_single_url when should_stop was set
\* ends Aborted: it neither increments failed nor appends an error record
\* (nor ends with another outcome).
C6_InFlightAborted ==
    \A t \in atStop :
        /\ pc[t] = "done" => outcome[t] = "Aborted"
        /\ pc[t] # "fail_st"
        /\ ErrorsOf(t) = {}

\* C7: with should_stop set, a running task calls no trigger (DevTools or
\* tab_opener), makes no verifying duplicate check and begins no retry wait.
C7_NoNewWorkAfterStop ==
    [][should_stop =>
        \A t \in Tasks :
            /\ pc[t] \in {"devtools", "tab_opener", "verify", "verify2"}
                => pc'[t] = pc[t]
            /\ ~(pc[t] = "retry" /\ pc'[t] = "attempt")]_vars

\* C8: batches are sequential: a task that has been handed to the executor and
\* has not reached its outcome belongs to the batch the scheduler is inside
\* of; outside process_batch (before the next batch, at the end of the run)
\* every task started so far has reached its outcome.
C8_BatchesSequential ==
    \A t \in Tasks :
        (pc[t] \notin {"idle", "done"})
            => (mpc \in {"submit", "gather", "join"} /\ t \in BatchTasks)

\* C8 witness: the scheduler has left a batch of at least two tasks, all of
\* them at their outcome.
C8_Witness ==
    /\ mpc = "finally"
    /\ j >= 2
    /\ \A t \in BatchTasks : pc[t] = "done"
    /\ \E t \in BatchTasks : outcome[t] = "Failed"

\* C9: at most max_workers tasks execute process_single_url at once.
C9_BoundedWorkers == Running <= config.max_workers

\* C9 witness: the pool is saturated: max_workers tasks run while another one
\* waits in the queue for a free worker.
C9_Witness ==
    /\ Running = config.max_workers
    /\ \E t \in Tasks : pc[t] = "queued"

\* C10: no increment is lost: once a batch's tasks have all ended, each
\* counter equals the number of tasks that reached that outcome, and errors
\* holds one record per failed task.
C10_NoLostUpdate ==
    (mpc \notin {"submit", "gather", "join"})
        => /\ stats.successful = OutcomeCount("Succeeded")
           /\ stats.failed = OutcomeCount("Failed")
           /\ stats.skipped = OutcomeCount("Skipped")
           /\ Len(stats.errors) = OutcomeCount("Failed")

\* ceil(n / b) for b >= 1.
CeilDiv(n, b) == (n + b - 1) \div b

\* C11: without a shutdown request, process_all_urls hands ceil(n / b)
\* batches to process_batch: the k-th is the slice of length b (the last one
\* possibly shorter) that starts at (k - 1) * b, so that the batches cover
\* the URL sequence in order and every URL is in exactly one of them.
C11_BatchPartition ==
    (RunEnded /\ ~should_stop /\ config.batch_size >= 1)
        => /\ Len(batches) = CeilDiv(stats.total, config.batch_size)
           /\ \A k \in DOMAIN batches :
                /\ batches[k].start = (k - 1) * config.batch_size
                /\ batches[k].size =
                       Min(config.batch_size, stats.total - batches[k].start)

\* C12: run() calls stop_chrome exactly once on every exit path: whenever
\* run() has been left (normally, after a stop request, or with any of the
\* exceptions of setup, start_chrome, load_urls_from_csv and process_batch
\* pending) stop_chrome has been called once, and it is never called before
\* that or a second time.
C12_StopChromeOnce ==
    /\ stop_calls <= 1
    /\ (mpc = "exit") <=> (stop_calls = 1)

\* C12 witness: run() has been left with the exception raised during batch
\* processing, after the one call of stop_chrome released the browser.
C12_Witness ==
    /\ mpc = "exit"
    /\ exc = "AttributeError"
    /\ stop_calls = 1
    /\ chrome_ok = "True"
    /\ chrome_process = "None"

\* C13: no batch is handed to process_batch and no URL enters the executor
\* or process_single_url unless start_chrome has returned True, that is, its
\* probe of the debugging port succeeded, earlier in the same run.
C13_ChromeBeforeWork ==
    (batches # <<>> \/ \E t \in Tasks : pc[t] # "idle")
        => chrome_ok = "True"

\* C13 witness: a task executes process_single_url in a batch that was
\* started after start_chrome returned True.
C13_Witness ==
    /\ chrome_ok = "True"
    /\ chrome_process = "proc"
    /\ Len(batches) = 1
    /\ \E t \in Tasks : pc[t] = "devtools"

\* C14: the Progress Ledger is written at the end of the run on every exit
\* path: whenever run() has been left, whether after full completion, after
\* a stop request or with a fatal exception pending, the progress file holds
\* the snapshot of the final statistics.
C14_LedgerAtRunEnd == (mpc = "exit") => (ledger = save_progress(stats))

\* C15: a checkpoint write is crash-safe: when the process dies at any point
\* of _save_progress, the progress file holds a complete snapshot, the one
\* it held before the call or the new one, never an empty or partly written
\* file.
C15_CrashSafeSave == (mpc = "crashed") => (Len(ledger) = 1)

\* stats.processed once the first k batches have been counted (line 524).
RECURSIVE ProcessedAfter(_)
ProcessedAfter(k) ==
    IF k = 0 THEN 0 ELSE ProcessedAfter(k - 1) + batches[k].size

\* Counting batch k took stats.processed across a multiple of
\* progress_save_interval.
Crossed(k) ==
    ProcessedAfter(k) \div config.progress_save_interval
        > ProcessedAfter(k - 1) \div config.progress_save_interval

C17_StopIdempotent ==
    [][(stop_calls' # stop_calls)
          => /\ chrome_process' = "None"
             /\ exc' = exc
             /\ (chrome_process = "None")
                    => UNCHANGED <<config, stats, should_stop, ledger, i,
                                   j, batches, chrome_ok, taskVars,
                                   atStop>>]_vars

\* C17 witness: stop_chrome has been called twice around a failed start (or
\* twice after it); no error was raised and no process is held.
C17_Witness ==
    /\ stop_calls = 2
    /\ chrome_ok = "False"
    /\ chrome_process = "None"
    /\ exc = "none"

\* C18: the supervisor holds a browser process only if the probe of the
\* debugging port succeeded: when start_chrome has returned False, also
\* after it had launched the browser, chrome_process is unset.
C18_FailedStartHoldsNothing ==
    (chrome_ok = "False") => (chrome_process = "None")

\* C19: the failure of one URL aborts neither its batch nor the run: when a
\* run without a stop request has ended and some URL has failed, every URL
\* of the CSV, in the failed one's batch and in the later batches, has been
\* processed to its outcome, and the failed URL is recorded in stats.errors.
C19_FailureIsolated ==
    (RunEnded /\ ~should_stop /\ \E t \in Tasks : outcome[t] = "Failed")
        => /\ \A t \in 1..stats.total : pc[t] = "done"
           /\ \A t \in Tasks : outcome[t] = "Failed" => ErrorsOf(t) # {}

\* C20: when the duplicate check of line 409 fails (transport error, timeout,
\* non-success status, unparsable body), check_url_exists has answered
\* "not a duplicate": the URL is not skipped, process_single_url goes on
\* into the retry loop (to the failed outcome when max_retries = 0), and no
\* exception has left it.
C20_CheckFailureNotDuplicate ==
    \A t \in Tasks :
        (reply[t] = "error")
            => /\ initDup[t] = "neg"
               /\ outcome[t] = "none"
               /\ pc[t] \in {"attempt", "devtools", "fail_st"}
               /\ (pc[t] = "fail_st") => (config.max_retries = 0)
               /\ exc = "none"

\* C20 witness: after a failed initial check a task is past the should_stop
\* test of the first attempt, about to call the primary trigger.
C20_Witness ==
    \E t \in Tasks :
        /\ reply[t] = "error"
        /\ initDup[t] = "neg"
        /\ pc[t] = "devtools"
        /\ attempt[t] = 1

\* ---------------------------------------------------------------- C21
\* C21: the Dependency Gate makes its checks in the order backend, CSV
\* file, Chrome binary, extension manifest; a failed check is the last one
\* made, and after it start_chrome is never called, no batch is created, no
\* task runs, and the process exits with a non-zero status.
C21_GateOrderAbort ==
    /\ Len(checks) <= Len(GateOrder)
    /\ \A k \in DOMAIN checks :
          /\ checks[k].name = GateOrder[k]
          /\ (~checks[k].ok) => (k = Len(checks))
    /\ (\E k \in DOMAIN checks : ~checks[k].ok)
          => /\ exc = "DependencyError"
             /\ chrome_ok = "none"
             /\ chrome_process = "None"
             /\ batches = <<>>
             /\ \A t \in Tasks : pc[t] = "idle"
             /\ mpc \in {Raised, "exit"}
             /\ (mpc = "exit") => (ExitCode # 0)
    /\ (chrome_ok # "none" \/ batches # <<>>)
          => /\ Len(checks) = Len(GateOrder)
             /\ \A k \in DOMAIN checks : checks[k].ok

\* C21 witness: the process has exited after the backend and the CSV file
\* were found and the Chrome check failed; the manifest was not looked at.
C21_Witness ==
    /\ mpc = "exit"
    /\ Len(checks) = 3
    /\ checks[1].ok /\ checks[2].ok /\ ~checks[3].ok
    /\ checks[3].name = "chrome_binary"
    /\ ExitCode = 1

\* ---------------------------------------------------------------- C22
\* C22: a run during which SIGINT or SIGTERM set should_stop exits with a
\* status that is neither 0 (success) nor 1 (fatal failure), and status 0
\* is given only to a run that was not interrupted.
C22_InterruptExitCode ==
    (mpc = "exit")
        => /\ should_stop => (ExitCode \notin {0, 1})
           /\ (ExitCode = 0) => ~should_stop

\* ---------------------------------------------------------------- C28
\* C28: no step of a run, from setup() to the end of run(), changes a field
\* of Config: the configuration keeps the values it was constructed with.
C28_ConfigImmutable == [][config' = config]_vars

\* ---------------------------------------------------------------- C29
\* C29: process_all_urls is entered (stats.total has been set from the URL
\* list) only with batch_size >= 1, max_workers >= 1 and max_retries >= 0.
C29_ConfigBounds ==
    (stats.total > 0)
        => /\ config.batch_size >= 1
           /\ config.max_workers >= 1
           /\ config.max_retries >= 0

\* ---------------------------------------------------------------- C25
\* C25: in a run with no shutdown request every URL of the list ends with
\* exactly one outcome (Succeeded, Failed or Skipped) and is counted once in
\* exactly one of successful, failed, skipped: at the end of the run each
\* counter equals the number of URLs with that outcome and the three add up
\* to the number of URLs.
C25_OneOutcomeEach ==
    (RunEnded /\ ~should_stop /\ config.batch_size >= 1
              /\ config.max_workers >= 1)
        => /\ \A t \in 1..stats.total :
                outcome[t] \in {"Succeeded", "Failed", "Skipped"}
           /\ stats.successful = OutcomeCount("Succeeded")
           /\ stats.failed = OutcomeCount("Failed")
           /\ stats.skipped = OutcomeCount("Skipped")
           /\ Sum(stats) = stats.total

\* ---------------------------------------------------------------- C26
\* The steps of an attempt that call out: the two triggers and the
\* verifying duplicate checks.
CallSteps == {"devtools", "verify", "tab_opener", "verify2"}

\* C26: a call inside an attempt that fails or times out (a trigger
\* returning False, a verifying check that does not report the URL) keeps the
\* task in its attempt and raises nothing into the run; the attempt that
\* ends without success is followed by the next attempt while
\* attempt < max_retries and by the failure record otherwise, and the
\* attempt number only ever advances there, by exactly one.
C26_FailedCallOneAttempt ==
    [][\A t \in Tasks :
        /\ (pc[t] \in CallSteps /\ pc'[t] # pc[t])
              => /\ pc'[t] \in {"verify", "has_helper", "verify2", "retry",
                                "succ_st"}
                 /\ attempt'[t] = attempt[t]
                 /\ exc' = exc
                 /\ mpc' = mpc
        /\ (pc[t] = "has_helper" /\ pc'[t] # pc[t])
              => /\ pc'[t] \in {"tab_opener", "retry"}
                 /\ attempt'[t] = attempt[t]
        /\ (pc[t] = "retry" /\ pc'[t] # pc[t])
              => IF attempt[t] < config.max_retries
                 THEN pc'[t] = "attempt" /\ attempt'[t] = attempt[t] + 1
                 ELSE pc'[t] = "fail_st" /\ attempt'[t] = attempt[t]
        /\ (attempt[t] >= 1 /\ attempt'[t] # attempt[t])
              => /\ pc[t] = "retry"
                 /\ attempt'[t] = attempt[t] + 1
        /\ (pc'[t] = "fail_st" /\ pc[t] # "fail_st")
              => \/ pc[t] = "retry"
                 \/ pc[t] = "check_exists" /\ config.max_retries = 0
      ]_vars

\* C26 witness: a task is in its second attempt after a first attempt in
\* which a trigger was invoked and nothing was verified; no exception is
\* pending in the run.
C26_Witness ==
    \E t \in Tasks :
        /\ pc[t] = "devtools"
        /\ attempt[t] = 2
        /\ triggered[t]
        /\ ~verified[t]
        /\ exc = "none"

\* ---------------------------------------------------------------- C30
\* C30: in every attempt the primary trigger is called first (it is what
\* follows the stop test at the top of the attempt, and tab_opener is
\* reached only past it), and tab_opener is called in an attempt only when
\* the helper is present and the primary trigger of that attempt returned
\* failure.
C30_FallbackOnlyAfterFailure ==
    [][\A t \in Tasks :
        /\ (pc[t] = "attempt" /\ pc'[t] # pc[t])
              => pc'[t] \in {"devtools", "done"}
        /\ (pc'[t] = "tab_opener" /\ pc[t] # "tab_opener")
              => /\ pc[t] = "has_helper"
                 /\ primary[t] = "False"
      ]_vars

\* ---------------------------------------------------------------- C23
\* The first line of the input on which the text v stands in some field.
FirstRow(file, v) ==
    LET ks == {k \in DOMAIN file :
                  \E f \in DOMAIN file[k].fields :
                      Strip(file[k].fields[f]) = v}
    IN IF ks = {} THEN 0 ELSE CHOOSE x \in ks : \A y \in ks : x <= y

\* C23: the list load_urls_from_csv returns holds no value twice, holds no
\* empty string, and holds its values in the order of their first
\* occurrence in the input.
C23_DistinctNonEmptyOrdered ==
    (csv_out.done /\ ~csv_out.raised)
        => /\ \A a, b \in DOMAIN csv_out.urls :
                (a # b) => (csv_out.urls[a] # csv_out.urls[b])
           /\ \A a \in DOMAIN csv_out.urls : csv_out.urls[a] # <<>>
           /\ \A a, b \in DOMAIN csv_out.urls :
                (a < b) => (FirstRow(csv_in, csv_out.urls[a])
                               <= FirstRow(csv_in, csv_out.urls[b]))

\* ---------------------------------------------------------------- C24
\* A field looks like a URL: it starts, blanks aside, with "http".
LooksLikeUrl(f) == StartsWith(Strip(f), http)

\* A column name contains an indicator, letter case aside.
Indicated(name) == \E ind \in url_indicators : Contains(Lower(name), ind)

\* The non-empty values of column c in the records from the k-th on.
RECURSIVE ColumnFrom(_, _, _)
ColumnFrom(file, k, c) ==
    IF k > Len(file) THEN <<>>
    ELSE IF Len(file[k].fields) >= c /\ Strip(file[k].fields[c]) # <<>>
         THEN <<Strip(file[k].fields[c])>> \o ColumnFrom(file, k + 1, c)
         ELSE ColumnFrom(file, k + 1, c)

\* C24: when the first field of the first record looks like a URL, the
\* list returned is the first column of every record, the first included;
\* otherwise it is, from the records after the first, a column whose name
\* in the first record contains an indicator, or the first column when no
\* name does.
C24_HeaderDetection ==
    (csv_out.done /\ ~csv_out.raised /\ csv_in # <<>>
                  /\ csv_in[1].fields # <<>>)
        => LET header == csv_in[1].fields IN
           IF LooksLikeUrl(header[1])
           THEN csv_out.urls = ColumnFrom(csv_in, 1, 1)
           ELSE \E c \in DOMAIN header :
                   /\ \/ Indicated(header[c])
                      \/ c = 1 /\ \A d \in DOMAIN header :
                                      ~Indicated(header[d])
                   /\ csv_out.urls = ColumnFrom(csv_in, 2, c)

\* ---------------------------------------------------------------- C27
\* C27: under every interleaving of the tasks of a batch, no two tasks
\* that are inside the DevTools trigger at the same time hold the same
\* browser tab (the tab each waits on and then closes).
C27_TabExclusive ==
    \A t, u \in Tasks :
        (t # u /\ pc[t] = "devtools_wait" /\ pc[u] = "devtools_wait")
            => tab_of[t] # tab_of[u]

\* ---------------------------------------------------------------- C31
\* C31: a task has slept once, for retry_delay seconds, after each of its
\* failed attempts but the last: in attempt k it has made k - 1 sleeps, all
\* of the same length, and a task that failed all max_retries attempts has
\* made max_retries - 1 of them, none after the final attempt.
C31_RetryWaits ==
    \A t \in Tasks :
        /\ \A k \in DOMAIN waits[t] : waits[t][k] = retry_delay
        /\ (attempt[t] >= 1) => (Len(waits[t]) = attempt[t] - 1)
        /\ (attempt[t] = 0) => (waits[t] = <<>>)
        /\ (outcome[t] = "Failed" /\ config.max_retries >= 1)
              => (Len(waits[t]) = config.max_retries - 1)

\* C31 witness: a task has failed after MaxRetries attempts with one sleep
\* fewer.
C31_Witness ==
    \E t \in Tasks :
        /\ outcome[t] = "Failed"
        /\ attempt[t] = MaxRetries
        /\ Len(waits[t]) = MaxRetries - 1
        /\ Len(waits[t]) >= 1

\* ---------------------------------------------------------------- C32
\* C32: a stop_chrome that found a process held asked it to terminate
\* first, killed it only after the bounded wait had timed out and never
\* when it had exited in time, and in both cases left chrome_process unset
\* and the process gone; a process that runs is one the supervisor holds.
C32_GracefulThenKill ==
    /\ (stop_log # <<>>)
          => /\ stop_log[1] = "terminate"
             /\ stop_log \in {<<"terminate", "exited">>,
                              <<"terminate", "timeout", "kill">>}
             /\ chrome_process = "None"
             /\ browser = (IF stop_log[2] = "timeout" THEN "killed"
                                                      ELSE "exited")
    /\ (browser \in {"exited", "killed"}) => (stop_log # <<>>)
    /\ (browser = "running") => (chrome_process = "proc")

\* C32 witness: a held process did not exit within the wait and was
\* killed; the handle is released.
C32_Witness ==
    /\ stop_log = <<"terminate", "timeout", "kill">>
    /\ browser = "killed"
    /\ chrome_process = "None"
    /\ stop_calls >= 1

\* ---------------------------------------------------------------- C33
\* C33: at a batch boundary (no batch is being submitted, gathered or
\* joined) stats.errors is as long as stats.failed says, and holds exactly
\* one record for each task whose outcome is Failed and none for any other.
C33_ErrorsMatchFailed ==
    (mpc \notin {"submit", "gather", "join"})
        => /\ Len(stats.errors) = stats.failed
           /\ \A t \in Tasks :
                Cardinality(ErrorsOf(t)) =
                    (IF outcome[t] = "Failed" THEN 1 ELSE 0)

\* ---------------------------------------------------------------- C34
\* C34: whenever a call of the DevTools trigger returns True for a task,
\* the tab the call held is one it asked the browser to open at the task's
\* URL during that call (the tab of POST /json/new with that URL).
C34_SuccessAfterOpen ==
    [][\A t \in Tasks :
          (pc[t] = "devtools_wait" /\ pc'[t] # "devtools_wait"
              /\ primary'[t] = "True")
              => tab_of[t] = NewTab(t, attempt[t])]_vars

\* ---------------------------------------------------------------- C35
\* C35: the step in which a call of the DevTools trigger closes a tab
\* removes from the browser's tabs only the tab that this call created; a
\* tab that was open before the call, or that another task's call created,
\* stays open.
C35_ClosesOnlyCreated ==
    [][\A t \in Tasks :
          (pc[t] = "devtools_wait" /\ pc'[t] # "devtools_wait")
              => \A k \in DOMAIN tabs :
                    (\A m \in DOMAIN tabs' : tabs'[m] # tabs[k])
                        => tabs[k] = NewTab(t, attempt[t])]_vars

\* ---------------------------------------------------------------- C38
\* C38: stats.processed never exceeds stats.total, and once the shutdown
\* flag is set it counts only URLs that were handed to a worker, that is,
\* for which process_single_url was started or is queued to start.
C38_ProcessedCountsStarted ==
    /\ stats.processed <= stats.total
    /\ should_stop
          => stats.processed <= Cardinality({t \in Tasks : pc[t] # "idle"})

\* ---------------------------------------------------------------- C36
\* C36: under every interleaving, the file a task has handed to its helper
\* holds exactly that task's URL for as long as the helper has not
\* finished, and what a finished helper was given is exactly that URL: no
\* other invocation has overwritten or removed the file in between.
C36_OwnFileUntilHelperDone ==
    \A t \in Tasks :
        /\ (helper[t].st = "running")
              => files[temp_csv[t]] = SingleUrlFile(t)
        /\ (helper[t].st = "done") => helper[t].got = SingleUrlFile(t)

\* ---------------------------------------------------------------- C37
\* C37: when every call the program waits on returns or times out, every
\* run comes to its end, with or without a shutdown signal at any point:
\* run() has gone through stop_chrome and holds no browser process, the
\* browser it launched is not running, and every task that was started has
\* returned with an outcome after at most max_retries attempts.
RunTerminated ==
    /\ mpc = "exit"
    /\ stop_calls >= 1
    /\ chrome_process = "None"
    /\ browser # "running"
    /\ \A t \in Tasks :
        /\ pc[t] \in {"idle", "done"}
        /\ (pc[t] = "done") => (outcome[t] # "none")
        /\ attempt[t] <= config.max_retries

C37_RunTerminates == <>RunTerminated

\* C37 witness: a run that was interrupted has ended, one of its tasks
\* having used all MaxRetries attempts, with the browser stopped.
C37_Witness ==
    /\ RunTerminated
    /\ should_stop
    /\ browser \in {"exited", "killed"}
    /\ \E t \in Tasks : pc[t] = "done" /\ attempt[t] = MaxRetries

====
